---- MODULE Spec2Model ----
(***************************************************************************)
(* Dynamic API-tool registration of petstore-mcp-server:                    *)
(*   src/turtlemint_server.py        the registration engine                *)
(*   src/petstore_server_dynamic.py  its earlier variant (stub handler)     *)
(* Text is modelled as sequences of one-character strings, so that the      *)
(* string operations of the code (strip, replace, find, slicing, re.sub,    *)
(* md5) are computed character by character.                                *)
(***************************************************************************)
EXTENDS Integers, Sequences, FiniteSets, TLC

VARIABLES server, pc, error, spec, nxt, registry, calls, ncalls, lastCall,
          san_in, san_out, js_in, js_out, inflight

vars == <<server, pc, error, spec, nxt, registry, calls, ncalls, lastCall,
          san_in, san_out, js_in, js_out, inflight>>

----------------------------------------------------------------------------
(* Python str operations                                                    *)

Digits == <<"0", "1", "2", "3", "4", "5", "6", "7", "8", "9">>
Upper == <<"A", "B", "C", "D", "E", "F", "G", "H", "I", "J", "K", "L", "M", "N", "O", "P", "Q", "R", "S", "T", "U", "V", "W", "X", "Y", "Z">>
Lower == <<"a", "b", "c", "d", "e", "f", "g", "h", "i", "j", "k", "l", "m", "n", "o", "p", "q", "r", "s", "t", "u", "v", "w", "x", "y", "z">>
HexDigits == <<"0", "1", "2", "3", "4", "5", "6", "7", "8", "9", "a", "b", "c", "d", "e", "f">>

Range(s) == {s[i] : i \in 1..Len(s)}
IndexOf(s, c) == CHOOSE i \in 1..Len(s) : s[i] = c

\* s[from:] of Python, with from a 0-based offset
Tail0(s, from) == SubSeq(s, from + 1, Len(s))

\* s.startswith(sub)
StartsWith(s, sub) == Len(sub) <= Len(s) /\ SubSeq(s, 1, Len(sub)) = sub

\* s.find(sub, start): the lowest 0-based index >= start where sub occurs, or -1
StrFind(s, sub, start) ==
    LET hits == {i \in start..(Len(s) - Len(sub)) : SubSeq(s, i + 1, i + Len(sub)) = sub}
    IN  IF hits = {} THEN -1 ELSE CHOOSE i \in hits : \A j \in hits : i <= j

\* s.replace(old, new) for a non-empty old: leftmost, non-overlapping occurrences
RECURSIVE StrReplace(_, _, _)
StrReplace(s, old, new) ==
    LET i == StrFind(s, old, 0)
    IN  IF i = -1 THEN s
        ELSE SubSeq(s, 1, i) \o new \o StrReplace(Tail0(s, i + Len(old)), old, new)

\* s.strip(c) for a one-character set
StrStrip(s, c) ==
    LET keep == {i \in 1..Len(s) : s[i] # c}
    IN  IF keep = {} THEN <<>>
        ELSE SubSeq(s, CHOOSE i \in keep : \A j \in keep : i <= j,
                       CHOOSE i \in keep : \A j \in keep : i >= j)

\* s.upper() and s.lower() on ASCII letters
UpperChar(c) == IF c \in Range(Lower) THEN Upper[IndexOf(Lower, c)] ELSE c
LowerChar(c) == IF c \in Range(Upper) THEN Lower[IndexOf(Upper, c)] ELSE c
StrUpper(s) == [i \in 1..Len(s) |-> UpperChar(s[i])]
StrLower(s) == [i \in 1..Len(s) |-> LowerChar(s[i])]

\* str.isidentifier() on ASCII text
IsIdentifier(s) ==
    /\ Len(s) > 0
    /\ s[1] \in Range(Lower) \cup Range(Upper) \cup {"_"}
    /\ \A i \in 1..Len(s) : s[i] \in Range(Lower) \cup Range(Upper) \cup Range(Digits) \cup {"_"}

\* ord(c) of the characters a cleaned tool name can hold
Ord(c) == CASE c \in Range(Digits) -> 47 + IndexOf(Digits, c)
            [] c \in Range(Upper) -> 64 + IndexOf(Upper, c)
            [] c \in Range(Lower) -> 96 + IndexOf(Lower, c)
            [] c = "-" -> 45
            [] c = "_" -> 95

----------------------------------------------------------------------------
(* hashlib.md5(...).hexdigest(): RFC 1321 on 32-bit words kept as pairs     *)
(* <<high 16 bits, low 16 bits>>, all arithmetic modulo 2^32.               *)

MD5_K == <<<<55146, 42104>>, <<59591, 46934>>, <<9248, 28891>>, <<49597, 52974>>, <<62844, 4015>>, <<18311, 50730>>, <<43056, 17939>>, <<64838, 38145>>, <<27008, 39128>>, <<35652, 63407>>, <<65535, 23473>>, <<35164, 55230>>, <<27536, 4386>>, <<64920, 29075>>, <<42617, 17294>>, <<18868, 2081>>, <<63006, 9570>>, <<49216, 45888>>, <<9822, 23121>>, <<59830, 51114>>, <<54831, 4189>>, <<580, 5203>>, <<55457, 59009>>, <<59347, 64456>>, <<8673, 52710>>, <<49975, 2006>>, <<62677, 3463>>, <<17754, 5357>>, <<43491, 59653>>, <<64751, 41976>>, <<26479, 729>>, <<36138, 19594>>, <<65530, 14658>>, <<34673, 63105>>, <<28061, 24866>>, <<64997, 14348>>, <<42174, 59972>>, <<19422, 53161>>, <<63163, 19296>>, <<48831, 48240>>, <<10395, 32454>>, <<60065, 10234>>, <<54511, 12421>>, <<1160, 7429>>, <<55764, 53305>>, <<59099, 39397>>, <<8098, 31992>>, <<50348, 22117>>, <<62505, 8772>>, <<17194, 65431>>, <<43924, 9127>>, <<64659, 41017>>, <<25947, 22979>>, <<36620, 52370>>, <<65519, 62589>>, <<34180, 24017>>, <<28584, 32335>>, <<65068, 59104>>, <<41729, 17172>>, <<19976, 4513>>, <<63315, 32386>>, <<48442, 62005>>, <<10967, 53947>>, <<60294, 54161>>>>
MD5_S == <<7, 12, 17, 22, 7, 12, 17, 22, 7, 12, 17, 22, 7, 12, 17, 22, 5, 9, 14, 20, 5, 9, 14, 20, 5, 9, 14, 20, 5, 9, 14, 20, 4, 11, 16, 23, 4, 11, 16, 23, 4, 11, 16, 23, 4, 11, 16, 23, 6, 10, 15, 21, 6, 10, 15, 21, 6, 10, 15, 21, 6, 10, 15, 21>>
MD5_Init == <<<<26437, 8961>>, <<61389, 43913>>, <<39098, 56574>>, <<4146, 21622>>>>
Pow2(n) == 2 ^ n
Add32(a, b) == LET lo == a[2] + b[2]
                   hi == a[1] + b[1] + (lo \div 65536)
               IN  <<hi % 65536, lo % 65536>>
Rotl16(w, s) == IF s = 0 THEN w
                ELSE <<((w[1] * Pow2(s)) % 65536) + (w[2] \div Pow2(16 - s)),
                       ((w[2] * Pow2(s)) % 65536) + (w[1] \div Pow2(16 - s))>>
Rotl32(w, s) == IF s >= 16 THEN Rotl16(<<w[2], w[1]>>, s - 16) ELSE Rotl16(w, s)
RoundBit(r, b, c, d) == CASE r = 0 -> IF b = 1 THEN c ELSE d
                          [] r = 1 -> IF d = 1 THEN b ELSE c
                          [] r = 2 -> (b + c + d) % 2
                          [] OTHER -> (c + (IF b = 1 \/ d = 0 THEN 1 ELSE 0)) % 2
RECURSIVE Round16(_, _, _, _, _)
Round16(r, b, c, d, n) ==
    IF n = 0 THEN 0
    ELSE RoundBit(r, b % 2, c % 2, d % 2) + 2 * Round16(r, b \div 2, c \div 2, d \div 2, n - 1)
Round32(r, b, c, d) == <<Round16(r, b[1], c[1], d[1], 16), Round16(r, b[2], c[2], d[2], 16)>>
MsgIndex(i) == CASE i < 16 -> i
                 [] i < 32 -> (5 * i + 1) % 16
                 [] i < 48 -> (3 * i + 5) % 16
                 [] OTHER  -> (7 * i) % 16
Md5Step(st, M, i) ==
    LET f == Add32(Add32(Add32(Round32(i \div 16, st[2], st[3], st[4]), st[1]), MD5_K[i + 1]),
                   M[MsgIndex(i) + 1])
    IN  <<st[4], Add32(st[2], Rotl32(f, MD5_S[i + 1])), st[2], st[3]>>
\* steps i .. last of one block; each step's state is computed before the next
RECURSIVE Md5Steps(_, _, _, _)
Md5Steps(st, M, i, last) ==
    LET nx == Md5Step(st, M, i)
    IN  IF Len(nx) # 4 \/ i = last THEN nx ELSE Md5Steps(nx, M, i + 1, last)

\* the four rounds of 16 steps
Md5Rounds(h, M) ==
    LET r1 == Md5Steps(h, M, 0, 15)
        r2 == Md5Steps(r1, M, 16, 31)
        r3 == Md5Steps(r2, M, 32, 47)
    IN  Md5Steps(r3, M, 48, 63)
Md5Block(h, M) == LET st == Md5Rounds(h, M)
                  IN  <<Add32(h[1], st[1]), Add32(h[2], st[2]), Add32(h[3], st[3]), Add32(h[4], st[4])>>
Md5Pad(bytes) ==
    LET n == Len(bytes)
        zeros == (119 - n) % 64
        bits == n * 8
    IN  bytes \o <<128>> \o [k \in 1..zeros |-> 0]
        \o <<bits % 256, (bits \div 256) % 256, bits \div 65536, 0, 0, 0, 0, 0>>
Md5Words(p, blk) == [j \in 1..16 |->
    LET o == 64 * blk + 4 * (j - 1)
    IN  <<p[o + 3] + 256 * p[o + 4], p[o + 1] + 256 * p[o + 2]>>]
RECURSIVE Md5Blocks(_, _, _)
Md5Blocks(h, p, blk) ==
    IF 64 * blk >= Len(p) THEN h
    ELSE LET nh == Md5Block(h, Md5Words(p, blk))
         IN  IF Len(nh) = 4 THEN Md5Blocks(nh, p, blk + 1) ELSE nh
Hex2(b) == <<HexDigits[(b \div 16) + 1], HexDigits[(b % 16) + 1]>>
WordHex(w) == Hex2(w[2] % 256) \o Hex2(w[2] \div 256) \o Hex2(w[1] % 256) \o Hex2(w[1] \div 256)
Md5HexDigest(s) ==
    LET h == Md5Blocks(MD5_Init, Md5Pad([k \in 1..Len(s) |-> Ord(s[k])]), 0)
    IN  WordHex(h[1]) \o WordHex(h[2]) \o WordHex(h[3]) \o WordHex(h[4])

----------------------------------------------------------------------------
(* Identifier sanitizers                                                    *)

MaxToolNameLen == 64
KeptPrefixLen == 55
HashSuffixLen == 8

\* sanitize_name: name.replace("-", "_")
sanitize_name(name) == StrReplace(name, <<"-">>, <<"_">>)

\* the character class [a-zA-Z0-9_-] of sanitize_tool_name's re.sub
AllowedChar(c) == c \in Range(Lower) \cup Range(Upper) \cup Range(Digits) \cup {"_", "-"}

\* raw_name of sanitize_tool_name, also the whole tool name of
\* petstore_server_dynamic.register_all_tools
RawToolName(method, endpoint) ==
    method \o <<"_">>
    \o StrReplace(StrReplace(StrReplace(StrStrip(endpoint, "/"), <<"/">>, <<"_">>),
                             <<"{">>, <<>>),
                  <<"}">>, <<>>)

\* cleaned of sanitize_tool_name, before the length test
CleanedToolName(method, endpoint) == SelectSeq(RawToolName(method, endpoint), AllowedChar)

\* hashlib.md5(cleaned.encode()).hexdigest()[:8]
HashSuffix(cleaned) == SubSeq(Md5HexDigest(cleaned), 1, HashSuffixLen)

\* a truncation that cuts at the length limit and adds no hash
Truncate_CutAtLimit(cleaned) ==
    IF Len(cleaned) > MaxToolNameLen THEN SubSeq(cleaned, 1, MaxToolNameLen) ELSE cleaned

\* a truncation whose hash is taken over the kept prefix
Truncate_HashOfPrefix(cleaned) ==
    IF Len(cleaned) > MaxToolNameLen
    THEN SubSeq(cleaned, 1, KeptPrefixLen) \o <<"_">>
         \o HashSuffix(SubSeq(cleaned, 1, KeptPrefixLen))
    ELSE cleaned

\* the truncation branch of sanitize_tool_name
Truncate(cleaned) ==
    IF Len(cleaned) > MaxToolNameLen
    THEN SubSeq(cleaned, 1, KeptPrefixLen) \o <<"_">> \o HashSuffix(cleaned)
    ELSE cleaned

sanitize_tool_name(method, endpoint) == Truncate(CleanedToolName(method, endpoint))

----------------------------------------------------------------------------
(* Results of calls that may raise                                          *)

Ok(v) == [ok |-> TRUE, val |-> v]
Raise(e) == [ok |-> FALSE, exc |-> e]

----------------------------------------------------------------------------
(* json.loads on the JSON texts of the model: objects and strings (without  *)
(* escapes), blanks between tokens.  A value is JStr(chars) or              *)
(* JObj(<<<<key, value>>, ...>>), the members in document order.            *)

JStr(s) == [t |-> "str", s |-> s]
JObj(m) == [t |-> "obj", m |-> m]

ParseFail == [ok |-> FALSE]
Parsed(v, rest) == [ok |-> TRUE, val |-> v, rest |-> rest]

RECURSIVE SkipWs(_)
SkipWs(s) == IF s # <<>> /\ s[1] = " " THEN SkipWs(Tail(s)) ELSE s

\* a string token: from an opening quote to the next quote
ParseString(s) ==
    IF s = <<>> \/ s[1] # "\"" THEN ParseFail
    ELSE LET close == StrFind(s, <<"\"">>, 1)
         IN  IF close = -1 THEN ParseFail
             ELSE Parsed(JStr(SubSeq(s, 2, close)), Tail0(s, close + 1))

RECURSIVE ParseValue(_)
RECURSIVE ParseMembers(_, _)
ParseValue(s) ==
    LET u == SkipWs(s)
    IN  IF u = <<>> THEN ParseFail
        ELSE IF u[1] = "\"" THEN ParseString(u)
        ELSE IF u[1] = "{"
        THEN LET w == SkipWs(Tail(u))
             IN  IF w # <<>> /\ w[1] = "}" THEN Parsed(JObj(<<>>), Tail(w))
                 ELSE ParseMembers(w, <<>>)
        ELSE ParseFail
ParseMembers(s, acc) ==
    LET k == ParseString(SkipWs(s))
    IN  IF ~k.ok THEN ParseFail
        ELSE LET c == SkipWs(k.rest)
             IN  IF c = <<>> \/ c[1] # ":" THEN ParseFail
                 ELSE LET v == ParseValue(Tail(c))
                      IN  IF ~v.ok THEN ParseFail
                          ELSE LET e == SkipWs(v.rest)
                                   m == Append(acc, <<k.val.s, v.val>>)
                               IN  IF e = <<>> THEN ParseFail
                                   ELSE IF e[1] = "," THEN ParseMembers(Tail(e), m)
                                   ELSE IF e[1] = "}" THEN Parsed(JObj(m), Tail(e))
                                   ELSE ParseFail

json_loads(s) ==
    LET r == ParseValue(s)
    IN  IF r.ok /\ SkipWs(r.rest) = <<>> THEN Ok(r.val) ELSE Raise("JSONDecodeError")

----------------------------------------------------------------------------
(* Embedded-JSON extractor                                                  *)

\* key = 'swaggerDoc'
SwaggerKey == <<"s", "w", "a", "g", "g", "e", "r", "D", "o", "c">>

\* the lowest 0-based index >= i of a brace character, or -1: the characters
\* between are passed over by the loop without effect
NextBrace(js_code, i) ==
    LET open == StrFind(js_code, <<"{">>, i)
        close == StrFind(js_code, <<"}">>, i)
    IN  IF open = -1 THEN close
        ELSE IF close = -1 THEN open
        ELSE IF open < close THEN open ELSE close

\* the for loop of extract_swagger_doc_from_js from 0-based index i with the
\* running count: the index of the '}' that brings count to 0, or -1 when the
\* text ends first
RECURSIVE BraceScan(_, _, _)
BraceScan(js_code, i, count) ==
    LET b == NextBrace(js_code, i)
    IN  IF b = -1 THEN -1
        ELSE IF js_code[b + 1] = "{" THEN BraceScan(js_code, b + 1, count + 1)
        ELSE IF count - 1 = 0 THEN b
        ELSE BraceScan(js_code, b + 1, count - 1)

\* a slice that stops before the closing brace
JsonSlice_BeforeClosingBrace(js_code, brace_start, i) == SubSeq(js_code, brace_start + 1, i)

\* json_str = js_code[brace_start:i+1]
JsonSlice(js_code, brace_start, i) == SubSeq(js_code, brace_start + 1, i + 1)

extract_swagger_doc_from_js(js_code) ==
    LET start_idx == StrFind(js_code, SwaggerKey, 0)
    IN  IF start_idx = -1 THEN Raise("ValueError: No 'swaggerDoc' found in JS content")
        ELSE LET brace_start == StrFind(js_code, <<"{">>, start_idx)
             IN  IF brace_start = -1
                 THEN Raise("ValueError: Opening brace for swaggerDoc not found")
                 ELSE LET i == BraceScan(js_code, brace_start, 0)
                      IN  IF i = -1
                          THEN Raise("ValueError: Unmatched braces while parsing swaggerDoc")
                          ELSE LET r == json_loads(JsonSlice(js_code, brace_start, i))
                               IN  IF r.ok THEN r
                                   ELSE Raise("ValueError: Failed to parse swaggerDoc JSON")

----------------------------------------------------------------------------
(* Python values and dicts.  A dict with string keys is a function on its   *)
(* keys; None and {} are both the empty function where only truthiness is   *)
(* read.                                                                    *)

PyNone == [t |-> "None"]
PyStr(s) == [t |-> "str", s |-> s]
PyInt(n) == [t |-> "int", n |-> n]
\* a test of falsiness in place of `is None`
IsNone_Falsy(v) ==
    \/ v.t = "None"
    \/ v.t = "str" /\ v.s = <<>>
    \/ v.t = "int" /\ v.n = 0

IsNone(v) == v.t = "None"

EmptyDict == <<>>
DictGet(d, k, default) == IF k \in DOMAIN d THEN d[k] ELSE default
Truthy(d) == DOMAIN d # {}

\* str(v) of the argument values of the model
RECURSIVE NatToStr(_)
NatToStr(n) == IF n < 10 THEN <<Digits[n + 1]>> ELSE NatToStr(n \div 10) \o <<Digits[(n % 10) + 1]>>
PyStrOf(v) == CASE v.t = "str" -> v.s
                [] v.t = "int" -> NatToStr(v.n)
                [] OTHER -> <<"N", "o", "n", "e">>

\* the distinct elements of a sequence in order of first occurrence (dict keys)
RECURSIVE Distinct(_)
Distinct(s) ==
    IF s = <<>> THEN <<>>
    ELSE LET front == Distinct(SubSeq(s, 1, Len(s) - 1))
         IN  IF s[Len(s)] \in Range(front) THEN front ELSE Append(front, s[Len(s)])

----------------------------------------------------------------------------
(* Transport: make_api_request and format_api_response of                   *)
(* turtlemint_server.py.  `remote` is what the network does with the        *)
(* request: [exc |-> TRUE] for a requests.RequestException, or a response   *)
(* with its status and body.                                                *)

BASE_URL == <<"h", "t", "t", "p", "s", ":", "/", "/", "a", "p", "p", ".", "t", "u", "r", "t", "l", "e", "m", "i", "n", "t", ".", "c", "o", "m">>

M_get == <<"g", "e", "t">>
M_post == <<"p", "o", "s", "t">>
M_put == <<"p", "u", "t">>
M_delete == <<"d", "e", "l", "e", "t", "e">>

DefaultHeaders == (<<"C", "o", "n", "t", "e", "n", "t", "-", "T", "y", "p", "e">> :> PyStr(<<"a", "p", "p", "l", "i", "c", "a", "t", "i", "o", "n", "/", "j", "s", "o", "n">>))
                  @@ (<<"A", "c", "c", "e", "p", "t">> :> PyStr(<<"a", "p", "p", "l", "i", "c", "a", "t", "i", "o", "n", "/", "j", "s", "o", "n">>))

\* final_headers.update(headers)
DictUpdate(d, e) == [k \in DOMAIN d \cup DOMAIN e |-> IF k \in DOMAIN e THEN e[k] ELSE d[k]]

\* the requests.get / post / put / delete call of make_api_request, if any
HttpRequests(method, endpoint, data, params, headers) ==
    LET verb == StrLower(method)
        final_headers == DictUpdate(DefaultHeaders, headers)
    IN  IF verb \in {M_get, M_delete}
        THEN <<[verb |-> verb, url |-> BASE_URL \o endpoint, json |-> PyNone,
                params |-> params, headers |-> final_headers]>>
        ELSE IF verb \in {M_post, M_put}
        THEN <<[verb |-> verb, url |-> BASE_URL \o endpoint, json |-> data,
                params |-> params, headers |-> final_headers]>>
        ELSE <<>>

\* the value make_api_request returns
make_api_request(method, endpoint, data, params, headers, remote) ==
    IF HttpRequests(method, endpoint, data, params, headers) = <<>>
    THEN [t |-> "dict", m |-> [error |-> "Invalid HTTP method"]]
    ELSE IF remote.exc
    THEN [t |-> "dict", m |-> [error |-> "API request failed: RequestException"]]
    ELSE IF remote.json THEN remote.body
    ELSE [t |-> "dict", m |-> [raw_response |-> remote.text]]

format_api_response(response) ==
    IF response.t = "dict" /\ "error" \in DOMAIN response.m
    THEN [form |-> "Error", error |-> response.m.error,
          details |-> IF "details" \in DOMAIN response.m THEN response.m.details
                      ELSE "No additional details"]
    ELSE [form |-> "json.dumps", value |-> response]

----------------------------------------------------------------------------
(* Operation parameter resolver and dynamic tool builder                    *)
(* (turtlemint_server.py).  An operation and a parameter are dicts: a key   *)
(* the document leaves out is outside the DOMAIN.                           *)

BodyArg == <<"b", "o", "d", "y">>
JsonContent == "application/json"

\* parse_parameters: (args, defaults), or KeyError when a parameter has no name
parse_parameters(parameters) ==
    IF \E i \in 1..Len(parameters) : "name" \notin DOMAIN parameters[i]
    THEN Raise("KeyError: 'name'")
    ELSE Ok([args |-> [i \in 1..Len(parameters) |-> sanitize_name(parameters[i].name)],
             defaults |-> {sanitize_name(parameters[i].name) : i \in
                              {j \in 1..Len(parameters) : ~DictGet(parameters[j], "required", FALSE)}}])

\* args and defaults of build_func: the body argument is appended, with a
\* default, when the request body declares application/json content
ResolveArgs(parameters, request_body) ==
    LET pp == parse_parameters(parameters)
    IN  IF ~pp.ok THEN pp
        ELSE IF Truthy(request_body) /\ JsonContent \in DictGet(request_body, "content", {})
        THEN Ok([args |-> Append(pp.val.args, BodyArg),
                 defaults |-> pp.val.defaults \cup {BodyArg}])
        ELSE pp

\* a signature that lists the arguments in the order of args
SigParams_InArgsOrder(args, defaults) ==
    [i \in 1..Len(args) |-> [name |-> args[i], required |-> args[i] \notin defaults]]

\* sig_params: the required arguments, then the optional ones
SigParams(args, defaults) ==
    LET IsRequired(a) == a \notin defaults
        IsOptional(a) == a \in defaults
        required == SelectSeq(args, IsRequired)
        optional == SelectSeq(args, IsOptional)
    IN  [i \in 1..Len(required) |-> [name |-> required[i], required |-> TRUE]]
        \o [i \in 1..Len(optional) |-> [name |-> optional[i], required |-> FALSE]]

\* inspect.Parameter and inspect.Signature accept the parameters: every name
\* an identifier, no name twice
SignatureAccepts(sig) ==
    /\ \A i \in 1..Len(sig) : IsIdentifier(sig[i].name)
    /\ \A i, j \in 1..Len(sig) : sig[i].name = sig[j].name => i = j

\* summary = operation.get("summary", f"{method.upper()} {endpoint}")
Summary(endpoint, method, operation) ==
    DictGet(operation, "summary", StrUpper(method) \o <<" ">> \o endpoint)

\* build_func: the tool (the closure's captured values, __signature__ and
\* __doc__), or the exception it raises
build_func(endpoint, method, operation) ==
    LET parameters == DictGet(operation, "parameters", <<>>)
        request_body == DictGet(operation, "requestBody", EmptyDict)
        ra == ResolveArgs(parameters, request_body)
    IN  IF ~ra.ok THEN ra
        ELSE LET sig == SigParams(ra.val.args, ra.val.defaults)
             IN  IF ~SignatureAccepts(sig) THEN Raise("ValueError: invalid signature")
                 ELSE Ok([endpoint |-> endpoint, method |-> method,
                          parameters |-> parameters, request_body |-> request_body,
                          signature |-> sig,
                          doc |-> Summary(endpoint, method, operation),
                          stub |-> FALSE])

\* the raw names of the parameters at `location` whose argument is not None,
\* in order of first occurrence: the keys of path_params, query_params, headers
SuppliedNames(parameters, kwargs, location) ==
    LET Here(i) == /\ DictGet(parameters[i], "in", "query") = location
                   /\ ~IsNone(DictGet(kwargs, sanitize_name(parameters[i].name), PyNone))
        idx == SelectSeq([i \in 1..Len(parameters) |-> i], Here)
    IN  Distinct([i \in 1..Len(idx) |-> parameters[idx[i]].name])

\* path_params, query_params or headers of api_tool
LocatedArgs(parameters, kwargs, location) ==
    [k \in Range(SuppliedNames(parameters, kwargs, location)) |-> kwargs[sanitize_name(k)]]

\* for k, v in path_params.items(): path = path.replace("{" + k + "}", str(v))
RECURSIVE SubstitutePath(_, _, _)
SubstitutePath(path, keys, path_params) ==
    IF keys = <<>> THEN path
    ELSE SubstitutePath(StrReplace(path, <<"{">> \o Head(keys) \o <<"}">>,
                                   PyStrOf(path_params[Head(keys)])),
                        Tail(keys), path_params)

\* body of api_tool
BodyOf(request_body, kwargs) ==
    IF Truthy(request_body) /\ BodyArg \in DOMAIN kwargs THEN kwargs[BodyArg] ELSE PyNone

\* the arguments api_tool passes to make_api_request
TransportCall(tool, kwargs) ==
    [method |-> tool.method,
     endpoint |-> SubstitutePath(tool.endpoint,
                                 SuppliedNames(tool.parameters, kwargs, "path"),
                                 LocatedArgs(tool.parameters, kwargs, "path")),
     data |-> BodyOf(tool.request_body, kwargs),
     params |-> LocatedArgs(tool.parameters, kwargs, "query"),
     headers |-> LocatedArgs(tool.parameters, kwargs, "header")]

\* api_tool(**kwargs) of turtlemint_server.py: what it passes to the
\* transport, the HTTP requests issued, and the string it returns
api_tool(tool, kwargs, remote) ==
    LET c == TransportCall(tool, kwargs)
    IN  [sent |-> <<c>>,
         http |-> HttpRequests(c.method, c.endpoint, c.data, c.params, c.headers),
         result |-> format_api_response(
                        make_api_request(c.method, c.endpoint, c.data, c.params, c.headers, remote))]

----------------------------------------------------------------------------
(* petstore_server_dynamic.py: the same driver without the sanitizers, the  *)
(* request body and the handler's logic                                     *)

dyn_parse_parameters(parameters) ==
    IF \E i \in 1..Len(parameters) : "name" \notin DOMAIN parameters[i]
    THEN Raise("KeyError: 'name'")
    ELSE Ok([args |-> [i \in 1..Len(parameters) |-> parameters[i].name],
             defaults |-> {parameters[i].name : i \in
                              {j \in 1..Len(parameters) : ~DictGet(parameters[j], "required", FALSE)}}])

dyn_build_func(endpoint, method, operation) ==
    LET parameters == DictGet(operation, "parameters", <<>>)
        pp == dyn_parse_parameters(parameters)
    IN  IF ~pp.ok THEN pp
        ELSE LET sig == SigParams(pp.val.args, pp.val.defaults)
             IN  IF ~SignatureAccepts(sig) THEN Raise("ValueError: invalid signature")
                 ELSE Ok([endpoint |-> endpoint, method |-> method,
                          parameters |-> parameters, request_body |-> EmptyDict,
                          signature |-> sig,
                          doc |-> Summary(endpoint, method, operation),
                          stub |-> TRUE])

\* api_tool of petstore_server_dynamic.py: `pass`
dyn_api_tool(tool, kwargs) == [sent |-> <<>>, http |-> <<>>, result |-> [form |-> "None"]]

----------------------------------------------------------------------------
(* Spec acquirer.  A response to the GET of OPENAPI_URL: `fails` when       *)
(* requests.get or raise_for_status raises, else its content-type header,   *)
(* its text, and `doc`, the document that text's JSON denotes (the model's  *)
(* texts leave the operations out).                                         *)

CT_javascript == <<"a", "p", "p", "l", "i", "c", "a", "t", "i", "o", "n", "/", "j", "a", "v", "a", "s", "c", "r", "i", "p", "t">>
CT_json == <<"a", "p", "p", "l", "i", "c", "a", "t", "i", "o", "n", "/", "j", "s", "o", "n">>

get_openapi_spec(resp) ==
    IF resp.fails THEN Raise("RuntimeError: Failed to fetch OpenAPI spec")
    ELSE LET content_type == StrLower(resp.content_type)
         IN  IF StrFind(content_type, CT_javascript, 0) # -1
             THEN LET r == extract_swagger_doc_from_js(resp.text)
                  IN  IF r.ok THEN Ok(resp.doc) ELSE r
             ELSE IF StrFind(content_type, CT_json, 0) # -1
             THEN IF json_loads(resp.text).ok THEN Ok(resp.doc)
                  ELSE Raise("RuntimeError: Failed to fetch OpenAPI spec")
             ELSE Raise("ValueError: Unsupported content-type")

dyn_get_openapi_spec(resp) ==
    IF resp.fails THEN Raise("requests.RequestException")
    ELSE IF json_loads(resp.text).ok THEN Ok(resp.doc)
    ELSE Raise("JSONDecodeError")

----------------------------------------------------------------------------
(* Registration driver and the FastMCP registry                             *)

\* an iteration that visits the methods of a path last to first
RECURSIVE Triples_MethodsReversed(_)
Triples_MethodsReversed(paths) ==
    IF paths = <<>> THEN <<>>
    ELSE [i \in 1..Len(Head(paths).ops) |->
             [endpoint |-> Head(paths).endpoint,
              method |-> Head(paths).ops[Len(Head(paths).ops) + 1 - i].method,
              operation |-> Head(paths).ops[Len(Head(paths).ops) + 1 - i].operation]]
         \o Triples_MethodsReversed(Tail(paths))

\* the (endpoint, method, operation) triples in the order of
\* for endpoint, ops in spec["paths"].items(): for method, operation in ops.items()
RECURSIVE Triples(_)
Triples(paths) ==
    IF paths = <<>> THEN <<>>
    ELSE [i \in 1..Len(Head(paths).ops) |->
             [endpoint |-> Head(paths).endpoint,
              method |-> Head(paths).ops[i].method,
              operation |-> Head(paths).ops[i].operation]]
         \o Triples(Tail(paths))

\* mcp.tool(description=summary, name=tool_name)(func): FastMCP keeps the
\* tool already registered under a name and drops the new one
AddTool(reg, name, description, fn) ==
    IF \E i \in 1..Len(reg) : reg[i].name = name THEN reg
    ELSE Append(reg, [name |-> name, description |-> description, fn |-> fn])

----------------------------------------------------------------------------
(* Inputs: spec documents, responses of the spec source, outcomes of the    *)
(* remote API, argument values                                              *)

P_petId == <<"/", "p", "e", "t", "/", "{", "p", "e", "t", "I", "d", "}">>
P_pet == <<"/", "p", "e", "t">>
P_pair == <<"/", "p", "a", "i", "r", "/", "{", "i", "d", "}", "/", "{", "i", "d", "}">>
P_upload == <<"/", "u", "p", "l", "o", "a", "d">>
P_bad == <<"/", "b", "a", "d">>
P_dotted == <<"/", "v", "1", ".", "0", "/", "p", "e", "t">>
P_petId_plain == <<"/", "p", "e", "t", "/", "p", "e", "t", "I", "d">>
\* two paths whose cleaned names differ and have the same md5 prefix ea5661d2
P_step30723 == <<"/", "a", "p", "i", "/", "v", "1", "/", "o", "r", "g", "a", "n", "i", "z", "a", "t", "i", "o", "n", "s", "/", "{", "o", "r", "g", "I", "d", "}", "/", "p", "r", "o", "j", "e", "c", "t", "s", "/", "{", "p", "r", "o", "j", "e", "c", "t", "I", "d", "}", "/", "b", "u", "i", "l", "d", "s", "/", "{", "b", "u", "i", "l", "d", "I", "d", "}", "/", "s", "t", "e", "p", "3", "0", "7", "2", "3">>
P_step83000 == <<"/", "a", "p", "i", "/", "v", "1", "/", "o", "r", "g", "a", "n", "i", "z", "a", "t", "i", "o", "n", "s", "/", "{", "o", "r", "g", "I", "d", "}", "/", "p", "r", "o", "j", "e", "c", "t", "s", "/", "{", "p", "r", "o", "j", "e", "c", "t", "I", "d", "}", "/", "b", "u", "i", "l", "d", "s", "/", "{", "b", "u", "i", "l", "d", "I", "d", "}", "/", "s", "t", "e", "p", "8", "3", "0", "0", "0">>
\* two paths with the same cleaned name, and the same first 55 characters as the two above
P_step1 == <<"/", "a", "p", "i", "/", "v", "1", "/", "o", "r", "g", "a", "n", "i", "z", "a", "t", "i", "o", "n", "s", "/", "{", "o", "r", "g", "I", "d", "}", "/", "p", "r", "o", "j", "e", "c", "t", "s", "/", "{", "p", "r", "o", "j", "e", "c", "t", "I", "d", "}", "/", "b", "u", "i", "l", "d", "s", "/", "{", "b", "u", "i", "l", "d", "I", "d", "}", "/", "s", "t", "e", "p", "1">>
P_step1_plain == <<"/", "a", "p", "i", "/", "v", "1", "/", "o", "r", "g", "a", "n", "i", "z", "a", "t", "i", "o", "n", "s", "/", "{", "o", "r", "g", "I", "d", "}", "/", "p", "r", "o", "j", "e", "c", "t", "s", "/", "{", "p", "r", "o", "j", "e", "c", "t", "I", "d", "}", "/", "b", "u", "i", "l", "d", "s", "/", "b", "u", "i", "l", "d", "I", "d", "/", "s", "t", "e", "p", "1">>
M_patch == <<"p", "a", "t", "c", "h">>

Param_petId == [name |-> <<"p", "e", "t", "I", "d">>, in |-> "path", required |-> TRUE]
Param_limit == [name |-> <<"l", "i", "m", "i", "t">>]
Param_api_key == [name |-> <<"a", "p", "i", "-", "k", "e", "y">>, in |-> "header", required |-> FALSE]
Param_api_key_q == [name |-> <<"a", "p", "i", "_", "k", "e", "y">>, in |-> "query"]
Param_id == [name |-> <<"i", "d">>, in |-> "path", required |-> TRUE]
Param_nameless == [in |-> "query"]

JsonBody == [content |-> {"application/json"}]
FormBody == [content |-> {"multipart/form-data"}]

Path(endpoint, ops) == [endpoint |-> endpoint, ops |-> ops]
Op(method, operation) == [method |-> method, operation |-> operation]

\* the end-to-end scenario of the specification
Doc_single == [paths |-> <<
    Path(P_petId, <<Op(M_get, [summary |-> <<"F", "i", "n", "d", " ", "p", "e", "t">>, parameters |-> <<Param_petId>>])>>)>>]
Doc_store == [paths |-> <<
    Path(P_petId, <<Op(M_get, [parameters |-> <<Param_limit, Param_petId>>]),
                    Op(M_delete, [parameters |-> <<Param_api_key, Param_petId>>])>>),
    Path(P_pet, <<Op(M_post, [parameters |-> <<Param_limit>>, requestBody |-> JsonBody])>>)>>]
Doc_pair == [paths |-> <<
    Path(P_pair, <<Op(M_get, [parameters |-> <<Param_id>>])>>)>>]
Doc_upload == [paths |-> <<
    Path(P_upload, <<Op(M_post, [requestBody |-> FormBody]),
                     Op(M_put, [requestBody |-> JsonBody, parameters |-> <<>>]),
                     Op(M_patch, [requestBody |-> JsonBody])>>)>>]
\* the second operation has a parameter without a name
Doc_partial == [paths |-> <<
    Path(P_pet, <<Op(M_get, [summary |-> <<"L", "i", "s", "t", " ", "p", "e", "t", "s">>])>>),
    Path(P_bad, <<Op(M_get, [parameters |-> <<Param_nameless>>]),
                  Op(M_post, [requestBody |-> JsonBody])>>)>>]
\* two parameters with the same sanitized name
Doc_dup == [paths |-> <<
    Path(P_pet, <<Op(M_get, [parameters |-> <<Param_api_key, Param_api_key_q>>])>>)>>]
Doc_long == [paths |-> <<
    Path(P_step30723, <<Op(M_get, [summary |-> <<"a">>])>>),
    Path(P_step83000, <<Op(M_get, [summary |-> <<"b">>])>>),
    Path(P_step1, <<Op(M_get, [summary |-> <<"c">>])>>),
    Path(P_step1_plain, <<Op(M_get, [summary |-> <<"d">>])>>)>>]
Doc_same == [paths |-> <<
    Path(P_petId, <<Op(M_get, [parameters |-> <<Param_petId>>])>>),
    Path(P_petId_plain, <<Op(M_get, [summary |-> <<"e">>])>>)>>]
Doc_dotted == [paths |-> <<
    Path(P_dotted, <<Op(M_get, [summary |-> <<"f">>])>>)>>]
Doc_empty == [paths |-> <<>>]
Doc_nopaths == [info |-> <<"x">>]

Docs == <<Doc_single, Doc_store, Doc_pair, Doc_upload, Doc_partial, Doc_dup,
          Doc_long, Doc_same, Doc_dotted, Doc_empty, Doc_nopaths>>

T_json == <<"{", "\"", "p", "a", "t", "h", "s", "\"", ":", " ", "{", "}", "}">>
T_js == <<"l", "e", "t", " ", "o", "p", "t", "i", "o", "n", "s", " ", "=", " ", "{", "\"", "s", "w", "a", "g", "g", "e", "r", "D", "o", "c", "\"", ":", " ", "{", "\"", "p", "a", "t", "h", "s", "\"", ":", " ", "{", "}", "}", ",", " ", "\"", "c", "u", "s", "t", "o", "m", "O", "p", "t", "i", "o", "n", "s", "\"", ":", " ", "{", "}", "}", ";">>
T_js_nokey == <<"l", "e", "t", " ", "o", "p", "t", "i", "o", "n", "s", " ", "=", " ", "{", "\"", "c", "u", "s", "t", "o", "m", "O", "p", "t", "i", "o", "n", "s", "\"", ":", " ", "{", "}", "}", ";">>
T_js_nobrace == <<"/", "/", " ", "s", "w", "a", "g", "g", "e", "r", "D", "o", "c", " ", "m", "i", "s", "s", "i", "n", "g">>
T_js_open == <<"l", "e", "t", " ", "o", "p", "t", "i", "o", "n", "s", " ", "=", " ", "{", "\"", "s", "w", "a", "g", "g", "e", "r", "D", "o", "c", "\"", ":", " ", "{", "\"", "p", "a", "t", "h", "s", "\"", ":", " ", "{", "}">>
T_js_badjson == <<"l", "e", "t", " ", "o", "p", "t", "i", "o", "n", "s", " ", "=", " ", "{", "\"", "s", "w", "a", "g", "g", "e", "r", "D", "o", "c", "\"", ":", " ", "{", "p", "a", "t", "h", "s", "}", "}", ";">>
T_html == <<"<", "h", "t", "m", "l", ">">>

Resp(content_type, text, doc) ==
    [fails |-> FALSE, content_type |-> content_type, text |-> text, doc |-> doc]

SpecResponses ==
    [i \in 1..Len(Docs) |-> Resp(CT_json, T_json, Docs[i])]
    \o << [fails |-> TRUE, content_type |-> <<>>, text |-> <<>>, doc |-> Doc_empty],
          Resp(<<"a", "p", "p", "l", "i", "c", "a", "t", "i", "o", "n", "/", "j", "a", "v", "a", "s", "c", "r", "i", "p", "t", ";", " ", "c", "h", "a", "r", "s", "e", "t", "=", "U", "T", "F", "-", "8">>, T_js, Doc_single),
          Resp(<<"A", "p", "p", "l", "i", "c", "a", "t", "i", "o", "n", "/", "J", "S", "O", "N">>, T_json, Doc_pair),
          Resp(CT_javascript, T_js_nokey, Doc_single),
          Resp(CT_javascript, T_js_nobrace, Doc_single),
          Resp(CT_javascript, T_js_open, Doc_single),
          Resp(CT_javascript, T_js_badjson, Doc_single),
          Resp(CT_json, T_html, Doc_single),
          Resp(<<"t", "e", "x", "t", "/", "h", "t", "m", "l">>, T_json, Doc_single) >>

RemoteOutcomes == <<
    [exc |-> TRUE],
    [exc |-> FALSE, status |-> 200, json |-> TRUE,
     body |-> [t |-> "dict", m |-> [id |-> "5"]]],
    [exc |-> FALSE, status |-> 404, json |-> TRUE,
     body |-> [t |-> "dict", m |-> [code |-> "1", message |-> "Pet not found"]]],
    [exc |-> FALSE, status |-> 500, json |-> FALSE, text |-> "<html>"],
    [exc |-> FALSE, status |-> 200, json |-> TRUE, body |-> [t |-> "list"]] >>

ArgValues == {PyNone, PyStr(<<>>), PyStr(<<"5">>), PyInt(0)}

\* the keyword arguments a call of the tool may carry: any of the arguments
\* of its signature, and body when the operation has a request body
KwargsFor(tool) ==
    LET keys == {tool.signature[i].name : i \in 1..Len(tool.signature)}
                \cup (IF Truthy(tool.request_body) THEN {BodyArg} ELSE {})
    IN  UNION {[S -> ArgValues] : S \in SUBSET keys}

MaxCalls == 2

----------------------------------------------------------------------------
(* The program: register_all_tools at import, then tool invocations         *)

NoCall == [idx |-> 0, kwargs |-> <<>>, remote |-> 0, sent |-> <<>>, http |-> <<>>,
           result |-> [form |-> "none"]]

\* nothing fetched, registered or called yet
ServerIdle ==
    /\ pc = "start"
    /\ error = "none"
    /\ spec = Doc_empty
    /\ nxt = 1
    /\ registry = <<>>
    /\ calls = <<>>
    /\ ncalls = 0
    /\ lastCall = NoCall
    /\ inflight = <<>>

Init ==
    /\ server \in {"turtlemint", "petstore_dynamic"}
    /\ ServerIdle
    /\ san_in = <<>>
    /\ san_out = <<>>
    /\ js_in = <<>>
    /\ js_out = <<>>

\* spec = get_openapi_spec() and the evaluation of spec["paths"].items()
LoadSpec(r) ==
    IF ~r.ok
    THEN pc' = "failed" /\ error' = r.exc /\ UNCHANGED spec
    ELSE IF "paths" \notin DOMAIN r.val
    THEN pc' = "failed" /\ error' = "KeyError: 'paths'" /\ UNCHANGED spec
    ELSE /\ spec' = r.val
         /\ error' = "none"
         /\ pc' = IF Triples(r.val.paths) = <<>> THEN "serving" ELSE "registering"

GetSpec ==
    /\ pc = "start"
    /\ server = "turtlemint"
    /\ \E i \in 1..Len(SpecResponses) : LoadSpec(get_openapi_spec(SpecResponses[i]))
    /\ UNCHANGED <<server, nxt, registry, calls, ncalls, lastCall, san_in, san_out, js_in, js_out, inflight>>

DynGetSpec ==
    /\ pc = "start"
    /\ server = "petstore_dynamic"
    /\ \E i \in 1..Len(SpecResponses) : LoadSpec(dyn_get_openapi_spec(SpecResponses[i]))
    /\ UNCHANGED <<server, nxt, registry, calls, ncalls, lastCall, san_in, san_out, js_in, js_out, inflight>>

\* one iteration of the loops of register_all_tools
RegisterStep(t, func, tool_name) ==
    IF ~func.ok
    THEN pc' = "failed" /\ error' = func.exc /\ UNCHANGED <<nxt, registry, calls>>
    ELSE /\ registry' = AddTool(registry, tool_name,
                                Summary(t.endpoint, t.method, t.operation), func.val)
         /\ calls' = Append(calls, tool_name)
         /\ nxt' = nxt + 1
         /\ pc' = IF nxt = Len(Triples(spec.paths)) THEN "serving" ELSE "registering"
         /\ UNCHANGED error

RegisterTool ==
    /\ pc = "registering"
    /\ server = "turtlemint"
    /\ LET t == Triples(spec.paths)[nxt]
       IN  RegisterStep(t, build_func(t.endpoint, t.method, t.operation),
                        sanitize_tool_name(t.method, t.endpoint))
    /\ UNCHANGED <<server, spec, ncalls, lastCall, san_in, san_out, js_in, js_out, inflight>>

DynRegisterTool ==
    /\ pc = "registering"
    /\ server = "petstore_dynamic"
    /\ LET t == Triples(spec.paths)[nxt]
       IN  RegisterStep(t, dyn_build_func(t.endpoint, t.method, t.operation),
                        RawToolName(t.method, t.endpoint))
    /\ UNCHANGED <<server, spec, ncalls, lastCall, san_in, san_out, js_in, js_out, inflight>>

\* a call of a registered tool's handler
InvokeTool ==
    /\ pc = "serving"
    /\ ncalls < MaxCalls
    /\ \E i \in 1..Len(registry) :
         /\ ~registry[i].fn.stub
         /\ \E kwargs \in KwargsFor(registry[i].fn), o \in 1..Len(RemoteOutcomes) :
              lastCall' = [idx |-> i, kwargs |-> kwargs, remote |-> o]
                          @@ api_tool(registry[i].fn, kwargs, RemoteOutcomes[o])
    /\ ncalls' = ncalls + 1
    /\ UNCHANGED <<server, pc, error, spec, nxt, registry, calls, san_in, san_out, js_in, js_out, inflight>>

DynInvokeTool ==
    /\ pc = "serving"
    /\ ncalls < MaxCalls
    /\ \E i \in 1..Len(registry) :
         /\ registry[i].fn.stub
         /\ \E kwargs \in KwargsFor(registry[i].fn) :
              lastCall' = [idx |-> i, kwargs |-> kwargs, remote |-> 0]
                          @@ dyn_api_tool(registry[i].fn, kwargs)
    /\ ncalls' = ncalls + 1
    /\ UNCHANGED <<server, pc, error, spec, nxt, registry, calls, san_in, san_out, js_in, js_out, inflight>>

Next == GetSpec \/ DynGetSpec \/ RegisterTool \/ DynRegisterTool \/ InvokeTool \/ DynInvokeTool

Spec == Init /\ [][Next]_vars

----------------------------------------------------------------------------
(* sanitize_tool_name called on its own, MaxRepeat times on one input       *)

MaxSegs == 14
MaxRepeat == 2

RECURSIVE Repeat(_, _)
Repeat(seg, n) == IF n = 0 THEN <<>> ELSE seg \o Repeat(seg, n - 1)

Segments == {<<"/", "p", "e", "t", "s">>, <<"/", "{", "p", "e", "t", "I", "d", "}">>, <<"/", "v", "1", ".", "0">>, <<"/", "a", "-", "b", "_", "c">>, <<"/", "$", " ", ":">>}
SanMethods == {M_get, M_post, M_patch}
SanPaths == {Repeat(seg, n) : seg \in Segments, n \in 1..MaxSegs}
            \cup {<<"/">>, P_step30723, P_step83000}

InitSanitize ==
    /\ server = "turtlemint"
    /\ ServerIdle
    /\ san_in \in [method : SanMethods, endpoint : SanPaths]
    /\ san_out = <<>>
    /\ js_in = <<>>
    /\ js_out = <<>>

SanitizeCall ==
    /\ Len(san_out) < MaxRepeat
    /\ san_out' = Append(san_out, sanitize_tool_name(san_in.method, san_in.endpoint))
    /\ UNCHANGED <<server, pc, error, spec, nxt, registry, calls, ncalls, lastCall,
                   san_in, js_in, js_out, inflight>>

SpecSanitize == InitSanitize /\ [][SanitizeCall]_vars

----------------------------------------------------------------------------
(* extract_swagger_doc_from_js called on its own: a JSON object written     *)
(* after the key, inside surrounding script text                            *)

MaxDepth == 3

\* the text of a JSON value, without blanks
RECURSIVE JsonText(_)
RECURSIVE MembersText(_)
JsonText(v) ==
    IF v.t = "str" THEN <<"\"">> \o v.s \o <<"\"">>
    ELSE <<"{">> \o MembersText(v.m) \o <<"}">>
MembersText(m) ==
    IF m = <<>> THEN <<>>
    ELSE <<"\"">> \o m[1][1] \o <<"\"", ":">> \o JsonText(m[1][2])
         \o (IF Len(m) = 1 THEN <<>> ELSE <<",">> \o MembersText(Tail(m)))

\* v wrapped in n objects {"paths": ...}
RECURSIVE Nest(_, _)
Nest(v, n) == IF n = 0 THEN v ELSE JObj(<<<<<<"p", "a", "t", "h", "s">>, Nest(v, n - 1)>>>>)

\* innermost values: an empty object, plain text, a path template with a
\* balanced brace pair, a lone closing brace, a lone opening brace
Leaves == <<JObj(<<>>), JStr(<<"p", "e", "t">>), JStr(<<"/", "p", "e", "t", "/", "{", "p", "e", "t", "I", "d", "}">>), JStr(<<"}">>), JStr(<<"{">>)>>

EmbeddedObjects ==
    {Nest(Leaves[k], n) : k \in 1..Len(Leaves), n \in 1..MaxDepth}
    \cup {JObj(<<>>),
          JObj(<<<<<<"i", "n", "f", "o">>, JObj(<<<<<<"t", "i", "t", "l", "e">>, JStr(<<"x">>)>>>>)>>, <<<<"p", "a", "t", "h", "s">>, JObj(<<>>)>>>>)}

Prefixes == {<<>>, <<"/", "/", " ", "s", "w", "a", "g", "g", "e", "r", "D", "o", "c", ":", " ">>, <<"l", "e", "t", " ", "o", "p", "t", "i", "o", "n", "s", " ", "=", " ", "{", "\"">>, <<"i", "f", " ", "(", "a", ")", " ", "{", "b", "(", ")", "}", ";", " ", "v", "a", "r", " ">>, <<"/", "*", " ", "s", "w", "a", "g", "g", "e", "r", "D", "o", "c", " ", "*", "/", " ", "v", "a", "r", " ", "o", " ", "=", " ", "{", "\"">>}
Mids == {<<"\"", ":">>, <<" ", "=", " ">>}
Suffixes == {<<>>, <<",", "\"", "c", "u", "s", "t", "o", "m", "O", "p", "t", "i", "o", "n", "s", "\"", ":", "{", "}", "}", ";">>, <<";", " ", "}">>}

Embed(prefix, mid, obj, suffix) ==
    [prefix |-> prefix, mid |-> mid, obj |-> obj, suffix |-> suffix,
     js_code |-> prefix \o SwaggerKey \o mid \o JsonText(obj) \o suffix]

InitExtract ==
    /\ server = "turtlemint"
    /\ ServerIdle
    /\ san_in = <<>>
    /\ san_out = <<>>
    /\ js_in \in {Embed(a, b, o, c) : a \in Prefixes, b \in Mids, o \in EmbeddedObjects, c \in Suffixes}
    /\ js_out = <<>>

ExtractCall ==
    /\ js_out = <<>>
    /\ js_in # <<>>
    /\ js_out' = <<extract_swagger_doc_from_js(js_in.js_code)>>
    /\ UNCHANGED <<server, pc, error, spec, nxt, registry, calls, ncalls, lastCall,
                   san_in, san_out, js_in, inflight>>

SpecExtract == InitExtract /\ [][ExtractCall]_vars

----------------------------------------------------------------------------
(* Claims about tool invocations                                            *)

\* the last call was a call of a turtlemint_server.py handler
Called == server = "turtlemint" /\ lastCall.idx > 0
CalledTool == registry[lastCall.idx].fn

\* the argument of a parameter is supplied with a value that is not None
Supplied(kwargs, name) == name \in DOMAIN kwargs /\ kwargs[name].t # "None"

\* a required path parameter of the called tool whose argument is absent
AbsentRequiredPathParams ==
    {i \in 1..Len(CalledTool.parameters) :
        /\ DictGet(CalledTool.parameters[i], "in", "query") = "path"
        /\ DictGet(CalledTool.parameters[i], "required", FALSE)
        /\ ~Supplied(lastCall.kwargs, sanitize_name(CalledTool.parameters[i].name))}

Placeholder(name) == <<"{">> \o name \o <<"}">>

\* C1: a call that leaves a required path parameter p absent fails with an
\* error, issues no transport request, and no request is ever sent whose URL
\* still holds the text {p}
C1_MissingPathParameterFails ==
    Called =>
        \A i \in AbsentRequiredPathParams :
            /\ lastCall.result.form = "Error"
            /\ lastCall.sent = <<>>
            /\ lastCall.http = <<>>
            /\ \A k \in 1..Len(lastCall.http) :
                   StrFind(lastCall.http[k].url, Placeholder(CalledTool.parameters[i].name), 0) = -1

\* the remote call of the last invocation failed: a network error or timeout
\* (RequestException), or a response whose status is not 2xx
RemoteCallFailed ==
    /\ lastCall.http # <<>>
    /\ \/ RemoteOutcomes[lastCall.remote].exc
       \/ RemoteOutcomes[lastCall.remote].status \notin 200..299

\* C3: a failed remote call is returned as an 'Error: ...' string, and the
\* handler always returns a string
C3_FailedCallReturnsErrorString ==
    Called =>
        /\ lastCall.result.form \in {"Error", "json.dumps"}
        /\ RemoteCallFailed => lastCall.result.form = "Error"

\* the operation of the called tool declares an application/json request body
DeclaresJsonBody ==
    /\ Truthy(CalledTool.request_body)
    /\ "application/json" \in DictGet(CalledTool.request_body, "content", {})

\* C8: the transport gets the body argument as its payload when the operation
\* declares an application/json request body and the argument is supplied and
\* not absent, and no body in every other case
C8_BodyOnlyForDeclaredJson ==
    Called =>
        \A k \in 1..Len(lastCall.sent) :
            /\ lastCall.sent[k].data =
                   IF DeclaresJsonBody /\ Supplied(lastCall.kwargs, BodyArg)
                   THEN lastCall.kwargs[BodyArg] ELSE PyNone
            /\ \A h \in 1..Len(lastCall.http) :
                   ~(DeclaresJsonBody /\ Supplied(lastCall.kwargs, BodyArg))
                       => lastCall.http[h].json = PyNone

----------------------------------------------------------------------------
(* Claims about registration                                                *)

\* register_all_tools has ended: with an exception, or by returning
RunEnded == pc \in {"failed", "serving"}

\* C2: a run of register_all_tools that ends with an error leaves no tool in
\* the registry, and after any run the registry holds a tool for every
\* operation of the document or none
C2_NoPartialRegistration ==
    server = "turtlemint" =>
        /\ pc = "failed" => registry = <<>>
        /\ RunEnded => \/ registry = <<>>
                       \/ Len(calls) = Len(Triples(spec.paths))

----------------------------------------------------------------------------
(* Claims about tool names                                                  *)

\* the input of the stand-alone calls of sanitize_tool_name, cleaned
SanCleaned == CleanedToolName(san_in.method, san_in.endpoint)

\* C4: for a non-empty method and a non-empty path, every call of
\* sanitize_tool_name returns the same value; the value is non-empty, at
\* most 64 characters long and made of characters of [A-Za-z0-9_-]; when the
\* cleaned string is longer than 64 characters the value is its first 55
\* characters, then "_", then the first 8 hex characters of the MD5 digest
\* of the whole cleaned string.
C4_SanitizedNameDeterministicAndBounded ==
    \A i \in 1..Len(san_out) :
        LET r == san_out[i]
        IN  /\ san_in.method # <<>> /\ san_in.endpoint # <<>>
            /\ r = san_out[1]
            /\ r # <<>>
            /\ Len(r) <= 64
            /\ \A k \in 1..Len(r) : AllowedChar(r[k])
            /\ Len(SanCleaned) > 64 =>
                 /\ Len(r) = 64
                 /\ SubSeq(r, 1, 55) = SubSeq(SanCleaned, 1, 55)
                 /\ r[56] = "_"
                 /\ SubSeq(r, 57, 64) = SubSeq(Md5HexDigest(SanCleaned), 1, 8)
                 /\ \A k \in 57..64 : r[k] \in Range(HexDigits)
            /\ Len(SanCleaned) <= 64 => r = SanCleaned

\* sanitize_tool_name was called twice on a path whose cleaned name is longer
\* than 64 characters
C4_Witness ==
    /\ Len(san_out) = 2
    /\ Len(SanCleaned) > 64
    /\ san_out[2] = <<"g", "e", "t", "_", "a", "p", "i", "_", "v", "1", "_", "o", "r", "g", "a", "n", "i", "z", "a", "t", "i", "o", "n", "s", "_", "o", "r", "g", "I", "d", "_", "p", "r", "o", "j", "e", "c", "t", "s", "_", "p", "r", "o", "j", "e", "c", "t", "I", "d", "_", "b", "u", "i", "l", "d", "_", "e", "a", "5", "6", "6", "1", "d", "2">>

\* triples i and j of the loaded document have cleaned names longer than 64
\* characters with the same first 55 characters
LongName(i) ==
    LET t == Triples(spec.paths)[i] IN CleanedToolName(t.method, t.endpoint)

CollideUnderTruncation(i, j) ==
    /\ i # j
    /\ Len(LongName(i)) > 64
    /\ Len(LongName(j)) > 64
    /\ SubSeq(LongName(i), 1, 55) = SubSeq(LongName(j), 1, 55)

\* the registry holds a tool built from triple i under the name it was
\* registered with
RegisteredAs(i) ==
    \E k \in 1..Len(registry) :
        /\ registry[k].name = calls[i]
        /\ registry[k].fn.endpoint = Triples(spec.paths)[i].endpoint
        /\ registry[k].fn.method = Triples(spec.paths)[i].method

----------------------------------------------------------------------------
(* Claims about the arguments a call passes on                              *)

\* the keyword a caller uses for the parameter with this raw name
ArgName(raw) == [i \in 1..Len(raw) |-> IF raw[i] = "-" THEN "_" ELSE raw[i]]

\* the parameters of the called tool at a location whose argument is supplied
\* and not None
SuppliedAt(location) ==
    {i \in 1..Len(CalledTool.parameters) :
        /\ DictGet(CalledTool.parameters[i], "in", "query") = location
        /\ Supplied(lastCall.kwargs, ArgName(CalledTool.parameters[i].name))}

\* the map has exactly one entry per supplied parameter of the location,
\* under the raw name, carrying the argument's value
HoldsSuppliedAt(map, location) ==
    /\ DOMAIN map = {CalledTool.parameters[i].name : i \in SuppliedAt(location)}
    /\ \A i \in SuppliedAt(location) :
           map[CalledTool.parameters[i].name]
               = lastCall.kwargs[ArgName(CalledTool.parameters[i].name)]

\* the text of an argument value in a path: a string as it is, a one-digit
\* number as its digit
ValueText(v) == IF v.t = "str" THEN v.s ELSE <<Digits[v.n + 1]>>

\* the template with every {name} of a supplied path parameter replaced by
\* the text of its value, read left to right
RECURSIVE FilledTemplate(_)
FilledTemplate(s) ==
    LET open == StrFind(s, <<"{">>, 0)
        close == IF open = -1 THEN -1 ELSE StrFind(s, <<"}">>, open)
    IN  IF close = -1 THEN s
        ELSE LET name == SubSeq(s, open + 2, close)
                 hit == {i \in SuppliedAt("path") : CalledTool.parameters[i].name = name}
             IN  SubSeq(s, 1, open)
                 \o (IF hit = {} THEN SubSeq(s, open + 1, close + 1)
                     ELSE ValueText(lastCall.kwargs[ArgName(name)]))
                 \o FilledTemplate(SubSeq(s, close + 2, Len(s)))

\* C6: the query map and the header map passed to the transport hold an
\* entry for a declared parameter of that location exactly when its argument
\* is supplied and not None, under the raw name and with the argument's
\* value (an empty string and zero included, an absent argument never); every
\* {rawName} of a supplied path parameter is replaced by its value in the path.
C6_SuppliedArgumentsReachTransport ==
    Called =>
        \A k \in 1..Len(lastCall.sent) :
            /\ HoldsSuppliedAt(lastCall.sent[k].params, "query")
            /\ HoldsSuppliedAt(lastCall.sent[k].headers, "header")
            /\ lastCall.sent[k].endpoint = FilledTemplate(CalledTool.endpoint)
            /\ \A i \in SuppliedAt("path") :
                   StrFind(lastCall.sent[k].endpoint,
                           Placeholder(CalledTool.parameters[i].name), 0) = -1
            /\ \A h \in 1..Len(lastCall.http) :
                   /\ lastCall.http[h].params = lastCall.sent[k].params
                   /\ lastCall.http[h].url = BASE_URL \o lastCall.sent[k].endpoint
                   /\ \A n \in DOMAIN lastCall.sent[k].headers :
                          lastCall.http[h].headers[n] = lastCall.sent[k].headers[n]

\* GET /pet/{petId} with the optional query parameter limit was called with
\* only petId="5": the path is /pet/5 and the query map is empty
C6_Witness ==
    /\ Called
    /\ CalledTool.endpoint = P_petId
    /\ CalledTool.method = M_get
    /\ Len(CalledTool.parameters) = 2
    /\ DOMAIN lastCall.kwargs = {<<"p", "e", "t", "I", "d">>}
    /\ lastCall.kwargs[<<"p", "e", "t", "I", "d">>] = PyStr(<<"5">>)
    /\ Len(lastCall.sent) = 1
    /\ lastCall.sent[1].endpoint = <<"/", "p", "e", "t", "/", "5">>
    /\ DOMAIN lastCall.sent[1].params = {}
    /\ DOMAIN lastCall.sent[1].headers = {}

----------------------------------------------------------------------------
(* Claims about the embedded-JSON extractor                                 *)

Extracted == js_out # <<>>

\* C7 as stated: the extractor returns exactly the embedded object, whatever
\* the object and the surrounding text.
C7_ExtractRoundTrips == Extracted => js_out[1] = Ok(js_in.obj)

\* the number of "{" less the number of "}" among the first k characters
BraceDepth(text, k) ==
    Cardinality({n \in 1..k : text[n] = "{"}) - Cardinality({n \in 1..k : text[n] = "}"})

\* the brace depth of the text first returns to zero at its last character
NaivelyBalanced(text) ==
    /\ BraceDepth(text, Len(text)) = 0
    /\ \A k \in 1..(Len(text) - 1) : BraceDepth(text, k) > 0

\* 0-based index of the embedded object's opening brace
ObjectStart == Len(js_in.prefix) + Len(SwaggerKey) + Len(js_in.mid)

\* the first "{" after the first occurrence of the key opens the embedded object
OpensAtObject ==
    StrFind(js_in.js_code, <<"{">>, StrFind(js_in.js_code, SwaggerKey, 0)) = ObjectStart

\* the text from the embedded object's opening brace to the end
FromObject == SubSeq(js_in.js_code, ObjectStart + 1, Len(js_in.js_code))

\* C7, amended: when the first "{" after the first occurrence of the key is
\* the embedded object's opening brace, the extractor returns exactly that
\* object if and only if the brace depth, counted over the object's text with
\* braces inside string literals included, first returns to zero at the
\* object's last character; when the depth never returns to zero before the
\* end of the text the extractor fails with the unmatched-braces error.
C7_ExtractReturnsNaivelyBalancedObject ==
    (Extracted /\ OpensAtObject) =>
        /\ js_out[1] = Ok(js_in.obj) <=> NaivelyBalanced(JsonText(js_in.obj))
        /\ (\A k \in 1..Len(FromObject) : BraceDepth(FromObject, k) > 0)
               <=> js_out[1] = Raise("ValueError: Unmatched braces while parsing swaggerDoc")

\* an object nested in two objects, holding a path template with its own
\* brace pair, was extracted from between script text
C7_Witness ==
    /\ Extracted
    /\ OpensAtObject
    /\ js_in.prefix # <<>>
    /\ js_in.suffix # <<>>
    /\ js_in.obj = Nest(JStr(<<"/", "p", "e", "t", "/", "{", "p", "e", "t", "I", "d", "}">>), 2)
    /\ NaivelyBalanced(JsonText(js_in.obj))
    /\ js_out[1] = Ok(js_in.obj)

----------------------------------------------------------------------------
(* Claims about the signature of a built tool                               *)

\* the tools of turtlemint_server.py in the registry
BuiltTools == IF server = "turtlemint" THEN {registry[k].fn : k \in 1..Len(registry)} ELSE {}

\* the operation of the tool declares an application/json request body
HasJsonBody(fn) ==
    /\ DOMAIN fn.request_body # {}
    /\ "application/json" \in DictGet(fn.request_body, "content", {})

\* the resolved arguments of the tool's operation: its parameters in the
\* order of the parameter list, then body
Resolved(fn) ==
    [i \in 1..Len(fn.parameters) |-> ArgName(fn.parameters[i].name)]
    \o (IF HasJsonBody(fn) THEN <<BodyArg>> ELSE <<>>)

\* the argument at position i of the resolved list is declared required
DeclaredRequired(fn, i) ==
    /\ i <= Len(fn.parameters)
    /\ DictGet(fn.parameters[i], "required", FALSE)

\* the signature lists every resolved argument once, required exactly when
\* its parameter declares required=true
ListsResolvedOnce(fn) ==
    /\ Len(fn.signature) = Len(Resolved(fn))
    /\ \A i \in 1..Len(Resolved(fn)) :
           \E k \in 1..Len(fn.signature) :
               /\ fn.signature[k].name = Resolved(fn)[i]
               /\ fn.signature[k].required = DeclaredRequired(fn, i)
               /\ \A h \in 1..Len(fn.signature) :
                      fn.signature[h].name = Resolved(fn)[i] => h = k

\* C9 as stated: the signature lists exactly the resolved arguments, each
\* once, in resolved order, required exactly when declared required.
C9_SignatureInResolvedOrder ==
    \A fn \in BuiltTools :
        /\ ListsResolvedOnce(fn)
        /\ [k \in 1..Len(fn.signature) |-> fn.signature[k].name] = Resolved(fn)

\* the position of a signature entry in the resolved list
ResolvedPos(fn, k) == CHOOSE i \in 1..Len(Resolved(fn)) : Resolved(fn)[i] = fn.signature[k].name

\* C9, amended: the signature of a built tool lists exactly the resolved
\* arguments, each once, required exactly when the parameter declares
\* required=true (body is optional); the required arguments come first and
\* the optional ones after them, each group in resolved order, so body is
\* the last argument when it is present.  An operation two of whose
\* parameters have the same sanitized name gets no tool: building it fails.
C9_SignatureRequiredThenOptional ==
    /\ (server = "turtlemint" /\ error = "ValueError: invalid signature") =>
           /\ pc = "failed"
           /\ Len(calls) = nxt - 1
           /\ LET ps == DictGet(Triples(spec.paths)[nxt].operation, "parameters", <<>>)
              IN  \E i, j \in 1..Len(ps) : i # j /\ ArgName(ps[i].name) = ArgName(ps[j].name)
    /\ \A fn \in BuiltTools :
            /\ ListsResolvedOnce(fn)
            /\ \A a, b \in 1..Len(fn.signature) :
                   a < b =>
                       /\ fn.signature[b].required => fn.signature[a].required
                       /\ fn.signature[a].required = fn.signature[b].required
                              => ResolvedPos(fn, a) < ResolvedPos(fn, b)
            /\ HasJsonBody(fn) =>
                   fn.signature[Len(fn.signature)] = [name |-> BodyArg, required |-> FALSE]

\* GET /pet/{petId} with parameters (limit optional, petId required) is
\* registered with the signature (petId, limit=None), and POST /pet with an
\* optional parameter and a JSON body with (limit=None, body=None)
C9_Witness ==
    /\ server = "turtlemint"
    /\ pc = "serving"
    /\ \E fn \in BuiltTools :
           /\ fn.endpoint = P_petId
           /\ fn.parameters = <<Param_limit, Param_petId>>
           /\ fn.signature = <<[name |-> <<"p", "e", "t", "I", "d">>, required |-> TRUE],
                               [name |-> <<"l", "i", "m", "i", "t">>, required |-> FALSE]>>
    /\ \E fn \in BuiltTools :
           /\ fn.endpoint = P_pet
           /\ HasJsonBody(fn)
           /\ fn.signature = <<[name |-> <<"l", "i", "m", "i", "t">>, required |-> FALSE],
                               [name |-> BodyArg, required |-> FALSE]>>

----------------------------------------------------------------------------
(* Claims about the registration driver                                     *)

\* the number of operations of the first p paths of the loaded document
RECURSIVE OpsBefore(_)
OpsBefore(p) == IF p = 0 THEN 0 ELSE OpsBefore(p - 1) + Len(spec.paths[p].ops)

NumOps == OpsBefore(Len(spec.paths))

\* the (path, method) positions of the loaded document
OpPositions == {<<p, o>> \in (1..Len(spec.paths)) \X (1..NumOps) : o <= Len(spec.paths[p].ops)}

\* the rank of an operation in path order, then method order
Rank(po) == OpsBefore(po[1] - 1) + po[2]

EndpointAt(po) == spec.paths[po[1]].endpoint
MethodAt(po) == spec.paths[po[1]].ops[po[2]].method

\* the registry holds a tool built from the operation under this name
HoldsToolOf(po, name) ==
    \E r \in 1..Len(registry) :
        /\ registry[r].name = name
        /\ registry[r].fn.endpoint = EndpointAt(po)
        /\ registry[r].fn.method = MethodAt(po)

PassedName(po) ==
    IF server = "turtlemint" THEN sanitize_tool_name(MethodAt(po), EndpointAt(po))
    ELSE MethodAt(po) \o <<"_">>
         \o SelectSeq([i \in 1..Len(EndpointAt(po)) |->
                          IF EndpointAt(po)[i] = "/" /\ 1 < i /\ i < Len(EndpointAt(po))
                          THEN "_" ELSE EndpointAt(po)[i]],
                      LAMBDA c : c \notin {"/", "{", "}"})

----------------------------------------------------------------------------
(* Concurrent invocations.  The registry may dispatch several calls of      *)
(* api_tool at once; a call is a frame of locals (path_params,              *)
(* query_params, headers, body, path) that advances in steps, each step     *)
(* reading the values build_func captured (endpoint, method, parameters,    *)
(* request_body) from the registered tool.  inflight holds the frames in    *)
(* order of entry.                                                          *)

MaxInflight == 2

\* the keyword arguments of the call entered as number t: any of the tool's
\* arguments, each with the caller's own value t
CallerKwargs(tool, t) ==
    LET keys == {tool.signature[i].name : i \in 1..Len(tool.signature)}
                \cup (IF Truthy(tool.request_body) THEN {BodyArg} ELSE {})
    IN  UNION {[S -> {PyInt(t)}] : S \in SUBSET keys}

\* the outcomes of the remote call a concurrent call may meet: a
\* RequestException and a 200
ConcurrentOutcomes == {1, 2}

\* api_tool from its entry to the end of the body test: the locals are
\* created empty in the call and filled from kwargs
EnterFrame(i, tool, kwargs) ==
    [pc |-> "collected", idx |-> i, kwargs |-> kwargs,
     path_keys |-> SuppliedNames(tool.parameters, kwargs, "path"),
     path_params |-> LocatedArgs(tool.parameters, kwargs, "path"),
     query_params |-> LocatedArgs(tool.parameters, kwargs, "query"),
     headers |-> LocatedArgs(tool.parameters, kwargs, "header"),
     body |-> BodyOf(tool.request_body, kwargs),
     path |-> <<>>, http |-> <<>>, remote |-> 0, result |-> [form |-> "none"]]

\* one frame of locals for all calls
Frame_OfFirstCall(frames, t) == frames[1]

\* the locals a call reads are those of its own frame
Frame(frames, t) == frames[t]

\* the tool a call runs
ToolOf(t) == registry[inflight[t].idx].fn

EnterCall ==
    /\ pc = "serving"
    /\ server = "turtlemint"
    /\ Len(inflight) < MaxInflight
    /\ \E i \in 1..Len(registry) :
         \E kwargs \in CallerKwargs(registry[i].fn, Len(inflight) + 1) :
             inflight' = Append(inflight, EnterFrame(i, registry[i].fn, kwargs))
    /\ UNCHANGED <<server, pc, error, spec, nxt, registry, calls, ncalls, lastCall,
                   san_in, san_out, js_in, js_out>>

\* path = endpoint and the replace loop
SubstituteStep(t) ==
    /\ inflight[t].pc = "collected"
    /\ LET f == Frame(inflight, t)
       IN  inflight' = [inflight EXCEPT
                            ![t].path = SubstitutePath(ToolOf(t).endpoint, f.path_keys, f.path_params),
                            ![t].pc = "substituted"]
    /\ UNCHANGED <<server, pc, error, spec, nxt, registry, calls, ncalls, lastCall,
                   san_in, san_out, js_in, js_out>>

\* make_api_request up to the requests.get / post / put / delete call; an
\* unsupported method returns at once
SendStep(t) ==
    /\ inflight[t].pc = "substituted"
    /\ LET f == Frame(inflight, t)
           reqs == HttpRequests(ToolOf(t).method, f.path, f.body, f.query_params, f.headers)
       IN  inflight' = [inflight EXCEPT
                            ![t].http = @ \o reqs,
                            ![t].pc = IF reqs = <<>> THEN "returned" ELSE "waiting",
                            ![t].result =
                                IF reqs = <<>>
                                THEN format_api_response(
                                         make_api_request(ToolOf(t).method, f.path, f.body,
                                                          f.query_params, f.headers,
                                                          RemoteOutcomes[1]))
                                ELSE @]
    /\ UNCHANGED <<server, pc, error, spec, nxt, registry, calls, ncalls, lastCall,
                   san_in, san_out, js_in, js_out>>

\* the response or the RequestException arrives; api_tool returns the
\* formatted string
ReturnStep(t) ==
    /\ inflight[t].pc = "waiting"
    /\ LET f == Frame(inflight, t)
       IN  \E o \in ConcurrentOutcomes :
               inflight' = [inflight EXCEPT
                                ![t].remote = o,
                                ![t].result =
                                    format_api_response(
                                        make_api_request(ToolOf(t).method, f.path, f.body,
                                                         f.query_params, f.headers,
                                                         RemoteOutcomes[o])),
                                ![t].pc = "returned"]
    /\ UNCHANGED <<server, pc, error, spec, nxt, registry, calls, ncalls, lastCall,
                   san_in, san_out, js_in, js_out>>

InitConcurrent ==
    /\ server = "turtlemint"
    /\ ServerIdle
    /\ san_in = <<>>
    /\ san_out = <<>>
    /\ js_in = <<>>
    /\ js_out = <<>>

NextConcurrent ==
    \/ GetSpec
    \/ RegisterTool
    \/ EnterCall
    \/ \E t \in 1..Len(inflight) : SubstituteStep(t)
    \/ \E t \in 1..Len(inflight) : SendStep(t)
    \/ \E t \in 1..Len(inflight) : ReturnStep(t)

SpecConcurrent == InitConcurrent /\ [][NextConcurrent]_vars

----------------------------------------------------------------------------
(* Claims about concurrent invocations                                      *)

\* what the call in frame f does when it runs alone, from entry to return,
\* with the remote outcome it met
RunAlone(f) ==
    api_tool(registry[f.idx].fn, f.kwargs,
             RemoteOutcomes[IF f.remote = 0 THEN 1 ELSE f.remote])

\* the call has issued the request it issues when run alone, at most once,
\* and returns what it returns when run alone
AsWhenAlone(f) ==
    /\ Len(f.http) <= 1
    /\ f.pc \in {"collected", "substituted"} => f.http = <<>>
    /\ f.pc \in {"waiting", "returned"} =>
           LET alone == RunAlone(f)
           IN  /\ f.http = alone.http
               /\ f.path = alone.sent[1].endpoint
               /\ f.body = alone.sent[1].data
               /\ f.query_params = alone.sent[1].params
               /\ f.headers = alone.sent[1].headers
               /\ f.pc = "returned" => f.result = alone.result

\* C11: in every interleaving of concurrent invocations of the same or of
\* different tools, each invocation issues the transport request (method,
\* substituted path, body, query map, header map) it issues when run alone,
\* at most once, and no step of an invocation changes a tool's captured
\* endpoint, parameter list or request body.
C11_ConcurrentCallsIndependent ==
    /\ [](\A t \in 1..Len(inflight) : AsWhenAlone(inflight[t]))
    /\ [][pc = "serving" => registry' = registry]_vars

\* two calls of GET /pet/{petId} with different arguments are interleaved:
\* the second has returned while the first, entered earlier, still waits for
\* its response, and each has sent its own path
C11_Witness ==
    /\ Len(inflight) = 2
    /\ inflight[1].idx = inflight[2].idx
    /\ ToolOf(1).endpoint = P_petId
    /\ inflight[1].pc = "waiting"
    /\ inflight[2].pc = "returned"
    /\ inflight[1].http = <<[verb |-> M_get, url |-> BASE_URL \o <<"/", "p", "e", "t", "/", "1">>, json |-> PyNone,
                             params |-> inflight[1].query_params,
                             headers |-> DefaultHeaders]>>
    /\ Len(inflight[2].http) = 1
    /\ inflight[2].http[1].url = BASE_URL \o <<"/", "p", "e", "t", "/", "2">>

====
